---- MODULE Spec2Model ----
(***************************************************************************)
(* Model of homekit-ratgdo-exporter (src/main.go): a Prometheus exporter   *)
(* that, on every GET /metrics, fetches status.json from the garage door   *)
(* controller under a global mutex, decodes it, sets the labelled gauges,  *)
(* counts the upstream status class and renders the registry.              *)
(***************************************************************************)
EXTENDS Integers, FiniteSets, Sequences, TLC

(***************************************************************************)
(* Bounds: request handlers that may run at once, and requests served.     *)
(***************************************************************************)
NumProcs == 2
MaxScrapes == 3

Procs == 1..NumProcs

(***************************************************************************)
(* Numbers.  Go's int64 and float64 are wider than TLC's integers, so a    *)
(* number is the pair [hi, lo] standing for hi * 2^53 + lo, with hi in     *)
(* {0, 1} and lo small.  Values with hi = 0 are exactly representable as   *)
(* float64; values in [2^53, 2^54) are representable only when even.       *)
(***************************************************************************)
Num(n) == [hi |-> 0, lo |-> n]
Big(k) == [hi |-> 1, lo |-> k]

\* float64(x) of an integer x: exact below 2^53; in [2^53, 2^54) the spacing
\* of float64 is 2 and ties round to the even mantissa.
Float64(x) ==
  IF x.hi = 0 THEN x
  ELSE LET m == x.lo \div 2
       IN  IF x.lo % 2 = 0 THEN x
           ELSE IF m % 2 = 0 THEN [hi |-> 1, lo |-> 2 * m]
                ELSE [hi |-> 1, lo |-> 2 * (m + 1)]

boolToFloat(b) == IF b THEN Num(1) ELSE Num(0)

(***************************************************************************)
(* The Status struct: JSON tag and Go type of every field.                 *)
(***************************************************************************)
JsonTag ==
  [ UpTime |-> "upTime", DeviceName |-> "deviceName", Paired |-> "paired",
    FirmwareVersion |-> "firmwareVersion", AccessoryID |-> "accessoryID",
    LocalIP |-> "localIP", SubnetMask |-> "subnetMask",
    GatewayIP |-> "gatewayIP", MacAddress |-> "macAddress",
    WifiSSID |-> "wifiSSID", GDOSecurityType |-> "GDOSecurityType",
    GarageDoorState |-> "garageDoorState",
    GarageLockState |-> "garageLockState",
    GarageLightOn |-> "garageLightOn", GarageMotion |-> "garageMotion",
    GarageObstructed |-> "garageObstructed",
    PasswordRequired |-> "passwordRequired",
    RebootSeconds |-> "rebootSeconds", FreeHeap |-> "freeHeap",
    MinHeap |-> "minHeap", MinStack |-> "minStack",
    CrashCount |-> "crashCount", WifiPhyMode |-> "wifiPhyMode",
    WifiPower |-> "wifiPower", TTCseconds |-> "TTCseconds",
    MotionTriggers |-> "motionTriggers", LEDidle |-> "LEDidle",
    LastDoorUpdateAt |-> "lastDoorUpdateAt",
    CheckFlashCRC |-> "checkFlashCRC" ]

StatusFields == DOMAIN JsonTag

StringFields ==
  { "DeviceName", "FirmwareVersion", "AccessoryID", "LocalIP", "SubnetMask",
    "GatewayIP", "MacAddress", "WifiSSID", "GDOSecurityType",
    "GarageDoorState", "GarageLockState" }

BoolFields ==
  { "Paired", "GarageLightOn", "GarageMotion", "GarageObstructed",
    "PasswordRequired", "CheckFlashCRC" }

FieldKind(f) ==
  IF f \in StringFields THEN "string"
  ELSE IF f \in BoolFields THEN "bool" ELSE "int"

\* The zero value of a field (var status Status).
ZeroValue(f) ==
  IF f \in StringFields THEN ""
  ELSE IF f \in BoolFields THEN FALSE ELSE Num(0)

ZeroStatus == [f \in StatusFields |-> ZeroValue(f)]

(***************************************************************************)
(* JSON values and bodies.  A body is either not a JSON object at all or   *)
(* an object, a function from its keys to JSON values.                     *)
(***************************************************************************)
JStr(s)  == [t |-> "string", s |-> s,  n |-> Num(0), b |-> FALSE]
JInt(n)  == [t |-> "int",    s |-> "", n |-> n,      b |-> FALSE]
JFrac    == [t |-> "frac",   s |-> "", n |-> Num(0), b |-> FALSE]
JBool(b) == [t |-> "bool",   s |-> "", n |-> Num(0), b |-> b]
JNull    == [t |-> "null",   s |-> "", n |-> Num(0), b |-> FALSE]

JsonObject(o) == [isObject |-> TRUE, obj |-> o]
NotJson       == [isObject |-> FALSE, obj |-> [k \in {} |-> JNull]]

\* What json.Unmarshal stores in field f for JSON value v.
FieldValue(f, v) ==
  IF FieldKind(f) = "string" THEN v.s
  ELSE IF FieldKind(f) = "bool" THEN v.b ELSE v.n

\* json.Unmarshal(body, &status): a body that is not a JSON object is an
\* error and leaves status at its zero value; a key whose value has the wrong
\* type is skipped and reported (UnmarshalTypeError) while the other fields
\* are still decoded; null leaves the field alone; unknown keys are ignored.
Mismatch(body, f) ==
  /\ JsonTag[f] \in DOMAIN body.obj
  /\ body.obj[JsonTag[f]].t \notin {FieldKind(f), "null"}

Unmarshal(body) ==
  IF ~body.isObject THEN [status |-> ZeroStatus, err |-> TRUE]
  ELSE [ status |->
           [f \in StatusFields |->
              IF /\ JsonTag[f] \in DOMAIN body.obj
                 /\ body.obj[JsonTag[f]].t = FieldKind(f)
              THEN FieldValue(f, body.obj[JsonTag[f]])
              ELSE ZeroValue(f)],
         err |-> \E f \in StatusFields : Mismatch(body, f) ]

(***************************************************************************)
(* Configuration and upstream inputs.                                      *)
(***************************************************************************)
\* -location flag (default value).
location == "home"

\* Status codes an upstream response may carry.
StatusCodes == {101, 200, 300, 404, 500}

Identity ==
  [ accessoryID |-> JStr("AA"), deviceName |-> JStr("Door1"),
    localIP |-> JStr("10.0.0.5"), macAddress |-> JStr("AA:BB") ]

\* Merge of two JSON objects (the keys of a win).
a ++ b == [k \in DOMAIN a \cup DOMAIN b |-> IF k \in DOMAIN a THEN a[k] ELSE b[k]]

ClosedBody ==
  JsonObject(Identity ++
    [ garageDoorState |-> JStr("Closed"), garageLightOn |-> JBool(TRUE),
      upTime |-> JInt(Num(120)), firmwareVersion |-> JStr("1.8.0"),
      freeHeap |-> JInt(Num(30)), minHeap |-> JInt(Num(20)),
      minStack |-> JInt(Num(10)) ])

OpenBody ==
  JsonObject(Identity ++
    [ garageDoorState |-> JStr("Open"), paired |-> JBool(TRUE),
      garageMotion |-> JBool(TRUE), upTime |-> JInt(Num(121)),
      firmwareVersion |-> JStr("1.8.0"), garageLockState |-> JStr("Unsecured"),
      freeHeap |-> JInt(Num(31)), minHeap |-> JInt(Num(21)),
      crashCount |-> JInt(Num(1)) ])

\* The door is moving, the up time is 2^53 + 1, there is a key the struct
\* does not know and a null.
MovingBody ==
  JsonObject(Identity ++
    [ garageDoorState |-> JStr("Opening"), garageObstructed |-> JBool(TRUE),
      passwordRequired |-> JBool(TRUE), upTime |-> JInt(Big(1)),
      firmwareVersion |-> JStr("1.9.0"), wifiRSSI |-> JStr("-60 dBm"),
      rebootSeconds |-> JNull, freeHeap |-> JInt(Num(32)),
      minStack |-> JInt(Num(-1)), crashCount |-> JInt(Num(2)) ])

\* Another device; every other field is missing.
OtherBody ==
  JsonObject([ accessoryID |-> JStr("BB"), upTime |-> JInt(Num(7)) ])

\* upTime is a JSON string: a type mismatch among otherwise valid fields.
MismatchBody ==
  JsonObject(Identity ++
    [ garageDoorState |-> JStr("Open"), upTime |-> JStr("120"),
      freeHeap |-> JInt(Num(99)), paired |-> JBool(TRUE) ])

\* A mismatch in a field no metric uses.
UnusedMismatchBody ==
  JsonObject(Identity ++
    [ garageDoorState |-> JStr("Closed"), upTime |-> JInt(Num(5)),
      wifiPower |-> JFrac ])

ValidBodies == {ClosedBody, OpenBody, MovingBody, OtherBody}
Bodies == ValidBodies \cup {NotJson, MismatchBody, UnusedMismatchBody}

\* What the upstream answers with during one run: any status code with a
\* body that decodes, one that does not or none; or 200 OK with any body.
Upstreams ==
  { [codes |-> StatusCodes, bodies |-> {ClosedBody, MismatchBody, NotJson}],
    [codes |-> {200}, bodies |-> Bodies] }

(***************************************************************************)
(* The registry: every GaugeVec is a map from label values to the value of *)
(* the series; a series exists once WithLabelValues has been called.       *)
(***************************************************************************)
NoSeries == [ls \in {} |-> Num(0)]

\* The ten gauges set at src/main.go:189-198, in program order.
NumericGauges ==
  << "upTime", "paired", "garageLightOn", "garageMotion", "garageObstructed",
     "passwordRequired", "freeHeap", "minHeap", "minStack", "crashCount" >>

NumericGaugeSet == {NumericGauges[i] : i \in 1..Len(NumericGauges)}

GaugeNames == NumericGaugeSet \cup {"garageDoorState", "deviceInfo"}

EmptyRegistry == [g \in GaugeNames |-> NoSeries]

Classes == {"2xx", "3xx", "4xx", "5xx"}

\* The vector reset before the series is set.
SetSeries_Reset(vec, ls, v) == [k \in {ls} |-> v]

\* vec.WithLabelValues(ls...).Set(v)
SetSeries(vec, ls, v) ==
  [k \in DOMAIN vec \cup {ls} |-> IF k = ls THEN v ELSE vec[k]]

Labels(status) ==
  << location, status.AccessoryID, status.DeviceName, status.LocalIP,
     status.MacAddress >>

InfoLabels(status) ==
  << location, status.FirmwareVersion, status.SubnetMask, status.GatewayIP,
     status.WifiSSID, status.GarageLockState, status.GDOSecurityType >>

(***************************************************************************)
(* The mapping of a decoded Status to gauge values.                        *)
(***************************************************************************)
\* The Status field each of the ten gauges is set from.
GaugeField ==
  [ upTime |-> "UpTime", paired |-> "Paired",
    garageLightOn |-> "GarageLightOn", garageMotion |-> "GarageMotion",
    garageObstructed |-> "GarageObstructed",
    passwordRequired |-> "PasswordRequired", freeHeap |-> "FreeHeap",
    minHeap |-> "MinHeap", minStack |-> "MinStack",
    crashCount |-> "CrashCount" ]

\* float64(status.F) for a numeric field, boolToFloat(status.F) for a boolean.
FieldToFloat(f, status) ==
  IF f \in BoolFields THEN boolToFloat(status[f]) ELSE Float64(status[f])

\* A slip of the pen: minHeap set from status.FreeHeap.
GaugeValue_CopyPaste(g, status) ==
  FieldToFloat(IF g = "minHeap" THEN "FreeHeap" ELSE GaugeField[g], status)

\* The value gauge g is set to.
GaugeValue(g, status) == FieldToFloat(GaugeField[g], status)

\* A door state that is neither Closed nor Open resets the gauge to 0.
DoorStateAfter_Reset(vec, status) ==
  SetSeries(vec, Labels(status),
            IF status.GarageDoorState = "Open" THEN Num(1) ELSE Num(0))

\* The door-state gauge after src/main.go:200-204.
DoorStateAfter(vec, status) ==
  IF status.GarageDoorState = "Closed"
  THEN SetSeries(vec, Labels(status), Num(0))
  ELSE IF status.GarageDoorState = "Open"
       THEN SetSeries(vec, Labels(status), Num(1))
       ELSE vec

\* Only the newest info series kept at 1, the earlier ones put to 0.
DeviceInfoAfter_ZeroOld(vec, status) ==
  [k \in DOMAIN vec \cup {InfoLabels(status)} |->
     IF k = InfoLabels(status) THEN Num(1) ELSE Num(0)]

\* The info gauge after src/main.go:206-214.
DeviceInfoAfter(vec, status) == SetSeries(vec, InfoLabels(status), Num(1))

\* The first case without its lower bound.
StatusClass_NoLowerBound(statusCode) ==
  CASE statusCode < 300                      -> "2xx"
    [] statusCode >= 300 /\ statusCode < 400 -> "3xx"
    [] statusCode >= 400 /\ statusCode < 500 -> "4xx"
    [] statusCode >= 500                     -> "5xx"

\* The switch of metricsHandler: the bucket of a status code, "" for none.
StatusClass(statusCode) ==
  CASE statusCode >= 200 /\ statusCode < 300 -> "2xx"
    [] statusCode >= 300 /\ statusCode < 400 -> "3xx"
    [] statusCode >= 400 /\ statusCode < 500 -> "4xx"
    [] statusCode >= 500                     -> "5xx"
    [] OTHER                                 -> ""

(***************************************************************************)
(* State.                                                                  *)
(***************************************************************************)
VARIABLES
  pc,            \* where each request handler stands
  mutex,         \* the global sync.Mutex: TRUE when locked
  registry,      \* the twelve GaugeVecs
  requestCount,  \* the CounterVec, by status_code_class
  resp,          \* fetchData: the upstream response
  status,        \* fetchData: var status Status
  statusCode,    \* metricsHandler: first result of fetchData
  err,           \* the error fetchData returns: "" is nil
  header,        \* the status line written to w: 0 while none is written
  exposition,    \* what promhttp rendered into w
  obtained,      \* history: the status code the upstream GET of this request yielded
  pre,           \* history: the registry when this request took the mutex
  applied,       \* history: the registry built from the decoded scrapes alone
  scrapes,       \* requests started so far
  upstream       \* the status codes and bodies the upstream answers with

vars ==
  << pc, mutex, registry, requestCount, resp, status, statusCode, err, header,
     exposition, obtained, pre, applied, scrapes, upstream >>

NoResp == [StatusCode |-> 0]

NoExposition ==
  [rendered |-> 0, gauges |-> EmptyRegistry, counts |-> [c \in Classes |-> 0]]

Init ==
  /\ pc = [p \in Procs |-> "idle"]
  /\ mutex = FALSE
  /\ registry = EmptyRegistry
  /\ requestCount = [c \in Classes |-> 0]
  /\ resp = [p \in Procs |-> NoResp]
  /\ status = [p \in Procs |-> ZeroStatus]
  /\ statusCode = [p \in Procs |-> 0]
  /\ err = [p \in Procs |-> ""]
  /\ header = [p \in Procs |-> 0]
  /\ exposition = [p \in Procs |-> NoExposition]
  /\ obtained = [p \in Procs |-> 0]
  /\ pre = [p \in Procs |-> EmptyRegistry]
  /\ applied = EmptyRegistry
  /\ scrapes = 0
  /\ upstream \in Upstreams

(***************************************************************************)
(* metricsHandler and fetchData, one action per step.                      *)
(***************************************************************************)
\* The HTTP server calls metricsHandler for a new GET /metrics.
Request(p) ==
  /\ pc[p] = "idle"
  /\ scrapes < MaxScrapes
  /\ scrapes' = scrapes + 1
  /\ pc' = [pc EXCEPT ![p] = "lock"]
  /\ UNCHANGED << mutex, registry, requestCount, resp, status, statusCode, err,
                  header, exposition, obtained, pre, applied, upstream >>

\* A lock that does not wait.
Lock_NoWait(p) ==
  /\ pc[p] = "lock"
  /\ mutex' = TRUE
  /\ pre' = [pre EXCEPT ![p] = registry]
  /\ pc' = [pc EXCEPT ![p] = "get"]
  /\ UNCHANGED << registry, requestCount, resp, status, statusCode, err,
                  header, exposition, obtained, applied, scrapes, upstream >>

\* mutex.Lock()
Lock(p) ==
  /\ pc[p] = "lock"
  /\ ~mutex
  /\ mutex' = TRUE
  /\ pre' = [pre EXCEPT ![p] = registry]
  /\ pc' = [pc EXCEPT ![p] = "get"]
  /\ UNCHANGED << registry, requestCount, resp, status, statusCode, err,
                  header, exposition, obtained, applied, scrapes, upstream >>

\* A status check: a response of class 4xx or 5xx is refused like a body
\* that does not decode.
AfterUnmarshal_RequireOK(p, r) ==
  IF r.err \/ resp'[p].StatusCode >= 400
  THEN /\ err' = [err EXCEPT ![p] = "decode"]
       /\ pc' = [pc EXCEPT ![p] = "unlock"]
  ELSE /\ pc' = [pc EXCEPT ![p] = NumericGauges[1]]
       /\ UNCHANGED err

\* The error of json.Unmarshal logged but not returned.
AfterUnmarshal_NoReturn(p, r) ==
  /\ err' = [err EXCEPT ![p] = IF r.err THEN "decode" ELSE @]
  /\ pc' = [pc EXCEPT ![p] = NumericGauges[1]]

\* if err != nil { log.Printf(...); return 0, err }
AfterUnmarshal(p, r) ==
  IF r.err
  THEN /\ err' = [err EXCEPT ![p] = "decode"]
       /\ pc' = [pc EXCEPT ![p] = "unlock"]
  ELSE /\ pc' = [pc EXCEPT ![p] = NumericGauges[1]]
       /\ UNCHANGED err

\* src/main.go:169-187, the steps of fetchData that touch nothing shared:
\* http.Get(jsonAddress) fails, or yields a response with some status code;
\* ioutil.ReadAll(resp.Body) fails, or yields the body; json.Unmarshal fails,
\* or yields the status.  Each failure logs and returns 0 and the error.
Fetch(p) ==
  /\ pc[p] = "get"
  /\ \/ /\ err' = [err EXCEPT ![p] = "transport"]
        /\ pc' = [pc EXCEPT ![p] = "unlock"]
        /\ UNCHANGED << resp, obtained, status >>
     \/ \E code \in upstream.codes :
          /\ resp' = [resp EXCEPT ![p] = [StatusCode |-> code]]
          /\ obtained' = [obtained EXCEPT ![p] = code]
          /\ \/ /\ err' = [err EXCEPT ![p] = "read"]
                /\ pc' = [pc EXCEPT ![p] = "unlock"]
                /\ UNCHANGED status
             \/ \E body \in upstream.bodies :
                  LET r == Unmarshal(body)
                  IN  /\ status' = [status EXCEPT ![p] = r.status]
                      /\ AfterUnmarshal(p, r)
  /\ UNCHANGED << mutex, registry, requestCount, statusCode, header, exposition,
                  pre, applied, scrapes, upstream >>

\* The position after the i-th numeric gauge.
NextGauge(i) ==
  IF i < Len(NumericGauges) THEN NumericGauges[i + 1] ELSE "garageDoorState"

\* One of the ten Set calls of src/main.go:189-198.
SetGauge(p) ==
  /\ \E i \in 1..Len(NumericGauges) :
       /\ pc[p] = NumericGauges[i]
       /\ registry' =
            [registry EXCEPT ![NumericGauges[i]] =
               SetSeries(@, Labels(status[p]),
                         GaugeValue(NumericGauges[i], status[p]))]
       /\ pc' = [pc EXCEPT ![p] = NextGauge(i)]
  /\ UNCHANGED << mutex, requestCount, resp, status, statusCode, err, header,
                  exposition, obtained, pre, applied, scrapes, upstream >>

\* if status.GarageDoorState == "Closed" ... else if ... == "Open" ...
SetDoorState(p) ==
  /\ pc[p] = "garageDoorState"
  /\ registry' = [registry EXCEPT !.garageDoorState = DoorStateAfter(@, status[p])]
  /\ pc' = [pc EXCEPT ![p] = "deviceInfo"]
  /\ UNCHANGED << mutex, requestCount, resp, status, statusCode, err, header,
                  exposition, obtained, pre, applied, scrapes, upstream >>

\* The whole update of fetchData applied to a registry at once.
RECURSIVE SetNumeric(_, _, _)
SetNumeric(reg, st, i) ==
  IF i > Len(NumericGauges) THEN reg
  ELSE SetNumeric([reg EXCEPT ![NumericGauges[i]] =
                     SetSeries(@, Labels(st), GaugeValue(NumericGauges[i], st))],
                  st, i + 1)

ApplyScrape(reg, st) ==
  LET r == SetNumeric(reg, st, 1)
  IN  [r EXCEPT !.garageDoorState = DoorStateAfter(@, st),
                !.deviceInfo = DeviceInfoAfter(@, st)]

\* deviceInfo.With(...).Set(1)
SetDeviceInfo(p) ==
  /\ pc[p] = "deviceInfo"
  /\ registry' = [registry EXCEPT !.deviceInfo = DeviceInfoAfter(@, status[p])]
  /\ applied' = ApplyScrape(applied, status[p])
  /\ pc' = [pc EXCEPT ![p] = "unlock"]
  /\ UNCHANGED << mutex, requestCount, resp, status, statusCode, err, header,
                  exposition, obtained, pre, scrapes, upstream >>

\* An unlock written at the end of the function only: the error returns
\* leave the mutex locked.
Unlock_OnlyOnSuccess(p) ==
  /\ pc[p] = "unlock"
  /\ mutex' = (err[p] # "")
  /\ statusCode' = [statusCode EXCEPT ![p] =
                      IF err[p] # "" THEN 0 ELSE resp[p].StatusCode]
  /\ resp' = [resp EXCEPT ![p] = NoResp]
  /\ status' = [status EXCEPT ![p] = ZeroStatus]
  /\ pre' = [pre EXCEPT ![p] = EmptyRegistry]
  /\ pc' = [pc EXCEPT ![p] = "handler"]
  /\ UNCHANGED << registry, requestCount, err, header, exposition, obtained,
                  applied, scrapes, upstream >>

\* fetchData returns: 0 and the error, or resp.StatusCode and nil; the
\* deferred mutex.Unlock() runs and fetchData's locals end.
Unlock(p) ==
  /\ pc[p] = "unlock"
  /\ mutex' = FALSE
  /\ statusCode' = [statusCode EXCEPT ![p] =
                      IF err[p] # "" THEN 0 ELSE resp[p].StatusCode]
  /\ resp' = [resp EXCEPT ![p] = NoResp]
  /\ status' = [status EXCEPT ![p] = ZeroStatus]
  /\ pre' = [pre EXCEPT ![p] = EmptyRegistry]
  /\ pc' = [pc EXCEPT ![p] = "handler"]
  /\ UNCHANGED << registry, requestCount, err, header, exposition, obtained,
                  applied, scrapes, upstream >>

\* A return after http.Error: the failed request ends without a render.
HandleErr_Return(p) ==
  /\ pc[p] = "handler"
  /\ IF err[p] # ""
     THEN /\ pc' = [pc EXCEPT ![p] = "idle"]
          /\ err' = [err EXCEPT ![p] = ""]
          /\ obtained' = [obtained EXCEPT ![p] = 0]
          /\ UNCHANGED header
     ELSE /\ pc' = [pc EXCEPT ![p] = "count"]
          /\ UNCHANGED << header, err, obtained >>
  /\ UNCHANGED << mutex, registry, requestCount, resp, status, statusCode,
                  exposition, pre, applied, scrapes, upstream >>

\* Only a transport error answered with 500.
HandleErr_TransportOnly(p) ==
  /\ pc[p] = "handler"
  /\ header' = [header EXCEPT ![p] = IF err[p] = "transport" THEN 500 ELSE @]
  /\ pc' = [pc EXCEPT ![p] = "count"]
  /\ UNCHANGED << mutex, registry, requestCount, resp, status, statusCode, err,
                  exposition, obtained, pre, applied, scrapes, upstream >>

\* if err != nil { http.Error(w, ..., http.StatusInternalServerError) }
HandleErr(p) ==
  /\ pc[p] = "handler"
  /\ header' = [header EXCEPT ![p] = IF err[p] # "" THEN 500 ELSE @]
  /\ pc' = [pc EXCEPT ![p] = "count"]
  /\ UNCHANGED << mutex, registry, requestCount, resp, status, statusCode, err,
                  exposition, obtained, pre, applied, scrapes, upstream >>

\* switch { case statusCode >= 200 && statusCode < 300: ... }
CountRequest(p) ==
  /\ pc[p] = "count"
  /\ requestCount' =
       IF StatusClass(statusCode[p]) = "" THEN requestCount
       ELSE [requestCount EXCEPT ![StatusClass(statusCode[p])] = @ + 1]
  /\ pc' = [pc EXCEPT ![p] = "serve"]
  /\ UNCHANGED << mutex, registry, resp, status, statusCode, err, header,
                  exposition, obtained, pre, applied, scrapes, upstream >>

\* promhttp.Handler().ServeHTTP(w, r): renders the registry; the status line
\* is 200 unless one was written already.  The render is taken as one read
\* of the registry, outside the mutex; the library reads series by series,
\* which can only show more interleavings than this.
ServeMetrics(p) ==
  /\ pc[p] = "serve"
  /\ exposition' = [exposition EXCEPT ![p] =
                      [rendered |-> @.rendered + 1, gauges |-> registry,
                       counts |-> requestCount]]
  /\ header' = [header EXCEPT ![p] = IF @ = 0 THEN 200 ELSE @]
  /\ pc' = [pc EXCEPT ![p] = "sent"]
  /\ UNCHANGED << mutex, registry, requestCount, resp, status, statusCode, err,
                  obtained, pre, applied, scrapes, upstream >>

\* metricsHandler returns: the response is complete and its locals end.
Finish(p) ==
  /\ pc[p] = "sent"
  /\ pc' = [pc EXCEPT ![p] = "idle"]
  /\ statusCode' = [statusCode EXCEPT ![p] = 0]
  /\ err' = [err EXCEPT ![p] = ""]
  /\ header' = [header EXCEPT ![p] = 0]
  /\ exposition' = [exposition EXCEPT ![p] = NoExposition]
  /\ obtained' = [obtained EXCEPT ![p] = 0]
  /\ UNCHANGED << mutex, registry, requestCount, resp, status, pre, applied,
                  scrapes, upstream >>

Next ==
  \E p \in Procs :
    \/ Request(p)
    \/ Lock(p)
    \/ Fetch(p)
    \/ SetGauge(p)
    \/ SetDoorState(p)
    \/ SetDeviceInfo(p)
    \/ Unlock(p)
    \/ HandleErr(p)
    \/ CountRequest(p)
    \/ ServeMetrics(p)
    \/ Finish(p)

Spec == Init /\ [][Next]_vars

\* A request handler that can take a step takes it (the Go scheduler runs
\* every runnable goroutine, and http.Get returns); a handler blocked in
\* mutex.Lock() gets the mutex if it is released again and again (a waiter
\* of sync.Mutex is handed the lock in starvation mode).  New requests
\* arrive or not as the clients please.
Step(p) ==
  \/ Fetch(p) \/ SetGauge(p) \/ SetDoorState(p) \/ SetDeviceInfo(p)
  \/ Unlock(p) \/ HandleErr(p) \/ CountRequest(p) \/ ServeMetrics(p)
  \/ Finish(p)

Fairness == \A p \in Procs : WF_vars(Step(p)) /\ SF_vars(Lock(p))

\* Progress does not depend on the status code: the fair specification
\* runs against the upstream that answers 200 OK with every body.
FairInit == Init /\ upstream.codes = {200}

FairSpec == FairInit /\ [][Next]_vars /\ Fairness

(***************************************************************************)
(* Vocabulary of the properties.                                           *)
(***************************************************************************)
\* p is between mutex.Lock() and mutex.Unlock().
InCriticalSection(p) == pc[p] \in {"get", "unlock"} \cup GaugeNames

\* No scrape is inside fetch+decode+update.
Quiescent == \A p \in Procs : ~InCriticalSection(p)

\* p's fetchData has run to its return with the given error ("" for nil).
Returning(p, e) == pc[p] = "unlock" /\ err[p] = e

\* p's counter step.
CountStep(p) == pc[p] = "count" /\ pc'[p] = "serve"

\* The label sets that have a series in some gauge of the device.
LabelSets(reg) ==
  UNION {DOMAIN reg[g] : g \in NumericGaugeSet \cup {"garageDoorState"}}

\* Every existing numeric series of label set ls holds the value one and the
\* same response st gives it.
NumericFrom(reg, ls, st) ==
  /\ Labels(st) = ls
  /\ \A g \in NumericGaugeSet :
       ls \in DOMAIN reg[g] => reg[g][ls] = GaugeValue(g, st)

\* The door-state series of ls, if there is one, holds the value st gives it.
DoorFrom(reg, ls, st) ==
  ls \in DOMAIN reg.garageDoorState =>
    \/ st.GarageDoorState = "Closed" /\ reg.garageDoorState[ls] = Num(0)
    \/ st.GarageDoorState = "Open" /\ reg.garageDoorState[ls] = Num(1)

DecodedResponses == {Unmarshal(b).status : b \in ValidBodies}

(***************************************************************************)
(* C1.  Every scrape whose upstream GET yielded a status code s >= 200     *)
(* increments exactly the bucket of the class of s by one and leaves the   *)
(* other buckets alone.                                                    *)
(***************************************************************************)
C1_OneBucketPerStatusCode ==
  [][\A p \in Procs :
       (CountStep(p) /\ obtained[p] >= 200) =>
         requestCount' =
           [requestCount EXCEPT ![StatusClass(obtained[p])] = @ + 1]]_vars

(***************************************************************************)
(* C2.  Every exposition rendered holds, for each label set, numeric gauge *)
(* values that all come from one upstream response.                        *)
(***************************************************************************)
C2_ExpositionFromOneScrape ==
  \A p \in Procs :
    pc[p] = "sent" =>
      \A ls \in LabelSets(exposition[p].gauges) :
        \E st \in DecodedResponses : NumericFrom(exposition[p].gauges, ls, st)

C4_DecodeFailureCounted ==
  [][\A p \in Procs :
       (CountStep(p) /\ err[p] = "decode" /\ StatusClass(obtained[p]) # "") =>
         requestCount'[StatusClass(obtained[p])] =
           requestCount[StatusClass(obtained[p])] + 1]_vars

(***************************************************************************)
(* C5.  A scrape whose GET fails at transport level changes no gauge       *)
(* series (values and set of series), increments no bucket, and is         *)
(* answered with 500.                                                      *)
(***************************************************************************)
C5_TransportFailure ==
  /\ [][\A p \in Procs :
          (err'[p] = "transport" /\ pc'[p] # pc[p]) =>
            registry' = registry /\ requestCount' = requestCount]_vars
  /\ [](\A p \in Procs : Returning(p, "transport") => registry = pre[p])
  /\ [](\A p \in Procs :
          (pc[p] = "sent" /\ err[p] = "transport") => header[p] = 500)

C5_Witness ==
  \E p \in Procs :
    /\ pc[p] = "sent"
    /\ err[p] = "transport"
    /\ header[p] = 500
    /\ registry # EmptyRegistry
    /\ \E c \in Classes : requestCount[c] > 0

(***************************************************************************)
(* C6.  Once the scrapes have finished, all gauges of a label set, the     *)
(* door-state gauge included, hold values of one and the same response.    *)
(***************************************************************************)
C6_NoMixIncludingDoorState ==
  Quiescent =>
    \A ls \in LabelSets(registry) :
      \E st \in DecodedResponses :
        NumericFrom(registry, ls, st) /\ DoorFrom(registry, ls, st)

\* C6 as amended: the ten numeric and boolean gauges of a label set hold
\* values of one and the same response, and so does the door-state gauge
\* whenever that response's garageDoorState is "Open" or "Closed"; otherwise
\* the door-state gauge holds what an earlier response left.
C6_NoMixOfNumericGauges ==
  Quiescent =>
    \A ls \in LabelSets(registry) :
      \E st \in DecodedResponses :
        /\ NumericFrom(registry, ls, st)
        /\ \A g \in NumericGaugeSet : ls \in DOMAIN registry[g]
        /\ st.GarageDoorState \in {"Open", "Closed"} =>
             (ls \in DOMAIN registry.garageDoorState /\ DoorFrom(registry, ls, st))

C6_Witness ==
  /\ Quiescent
  /\ scrapes >= 2
  /\ \E ls \in LabelSets(registry) :
       /\ NumericFrom(registry, ls, Unmarshal(MovingBody).status)
       /\ ls \in DOMAIN registry.garageDoorState
       /\ registry.garageDoorState[ls] = Num(1)

(***************************************************************************)
(* C7.  At most one scrape is between acquiring and releasing the mutex.   *)
(***************************************************************************)
C7_MutualExclusion ==
  /\ Cardinality({p \in Procs : InCriticalSection(p)}) <= 1
  /\ (\E p \in Procs : InCriticalSection(p)) => mutex

C7_Witness ==
  \E p, q \in Procs :
    /\ pc[p] = "garageMotion"
    /\ pc[q] = "lock"
    /\ mutex

(***************************************************************************)
(* C8.  After a decoded scrape the door-state series of the snapshot's     *)
(* labels reads 0 for "Closed" and 1 for "Open"; for any other state the   *)
(* door-state gauge is as it was before the scrape, no series created.     *)
(***************************************************************************)
C8_DoorState ==
  \A p \in Procs :
    Returning(p, "") =>
      LET st == status[p]
          ls == Labels(st)
          door == registry.garageDoorState
      IN  /\ st.GarageDoorState = "Closed" =>
               (ls \in DOMAIN door /\ door[ls] = Num(0))
          /\ st.GarageDoorState = "Open" =>
               (ls \in DOMAIN door /\ door[ls] = Num(1))
          /\ st.GarageDoorState \notin {"Closed", "Open"} =>
               door = pre[p].garageDoorState

C8_Witness ==
  \E p \in Procs :
    /\ Returning(p, "")
    /\ status[p].GarageDoorState = "Opening"
    /\ Labels(status[p]) \in DOMAIN registry.garageDoorState
    /\ registry.garageDoorState[Labels(status[p])] = Num(1)

(***************************************************************************)
(* C9.  After a decoded scrape each of the ten gauges, at the snapshot's   *)
(* labels, equals the field itself: the number, or 1 for true, 0 for false.*)
(***************************************************************************)
FieldItself(f, st) ==
  IF f \in BoolFields THEN (IF st[f] THEN Num(1) ELSE Num(0)) ELSE st[f]

C9_GaugeEqualsField ==
  \A p \in Procs :
    Returning(p, "") =>
      \A g \in NumericGaugeSet :
        /\ Labels(status[p]) \in DOMAIN registry[g]
        /\ registry[g][Labels(status[p])] = FieldItself(GaugeField[g], status[p])

\* C9 as amended: each gauge equals the field converted to float64: the
\* number itself when it is below 2^53 in magnitude, else the nearest number
\* a float64 can hold (an even one, at most 1 away, between 2^53 and 2^54);
\* 1 for true and 0 for false.
C9_GaugeEqualsFieldAsFloat64 ==
  \A p \in Procs :
    Returning(p, "") =>
      \A g \in NumericGaugeSet :
        LET ls == Labels(status[p])
            x == FieldItself(GaugeField[g], status[p])
        IN  /\ ls \in DOMAIN registry[g]
            /\ IF x.hi = 0 THEN registry[g][ls] = x
               ELSE /\ registry[g][ls].hi = 1
                    /\ registry[g][ls].lo % 2 = 0
                    /\ registry[g][ls].lo - x.lo \in {-1, 0, 1}

C9_Witness ==
  \E p \in Procs :
    /\ Returning(p, "")
    /\ status[p].UpTime = Big(1)
    /\ status[p].GarageObstructed
    /\ registry.upTime[Labels(status[p])] = Big(0)
    /\ registry.garageObstructed[Labels(status[p])] = Num(1)
    /\ registry.minStack[Labels(status[p])] = Num(-1)

(***************************************************************************)
(* C10.  A scrape whose body does not decode creates and changes no gauge  *)
(* series, and the gauges are what the decoded scrapes alone make them.    *)
(***************************************************************************)
C10_DecodeFailureChangesNothing ==
  /\ \A p \in Procs : Returning(p, "decode") => registry = pre[p]
  /\ Quiescent => registry = applied

C10_Witness ==
  \E p \in Procs :
    /\ Returning(p, "decode")
    /\ status[p].FreeHeap = Num(99)
    /\ registry # EmptyRegistry
    /\ scrapes >= 2

(***************************************************************************)
(* C11.  The mutex is released on every exit path of fetchData, so it is   *)
(* held only while some scrape is inside fetchData; and every request that *)
(* has started gets the mutex and completes.                               *)
(***************************************************************************)
C11_LockReleasedAndProgress ==
  /\ [](mutex <=> \E p \in Procs : InCriticalSection(p))
  /\ [][\A p \in Procs :
          (pc[p] = "unlock" /\ pc'[p] = "handler") => ~mutex']_vars
  /\ \A p \in Procs : (pc[p] = "lock") ~> (pc[p] = "sent")

C11_Witness ==
  \E p, q \in Procs :
    /\ pc[p] = "sent"
    /\ err[p] = "decode"
    /\ pc[q] = "sent"
    /\ err[q] = "transport"
    /\ ~mutex

(***************************************************************************)
(* C12.  Series are only added, never removed or reset: a step of a scrape *)
(* writes only series whose labels are drawn from its own snapshot, and    *)
(* every other series keeps its value.                                     *)
(***************************************************************************)
\* The labels under which the scrape of p writes gauge g.
OwnLabels(g, p) ==
  IF g = "deviceInfo" THEN InfoLabels(status[p]) ELSE Labels(status[p])

\* The scrape that holds the mutex and has decoded its body.
Updating(p) == pc[p] \in GaugeNames

C12_SeriesOnlyAdded ==
  [][\A g \in GaugeNames :
       /\ DOMAIN registry[g] \subseteq DOMAIN registry'[g]
       /\ \A ls \in DOMAIN registry'[g] :
            (ls \notin DOMAIN registry[g] \/ registry'[g][ls] # registry[g][ls])
              => \E p \in Procs : Updating(p) /\ ls = OwnLabels(g, p)]_vars

C12_Witness ==
  /\ Quiescent
  /\ scrapes = 3
  /\ DOMAIN registry.upTime =
       {Labels(Unmarshal(OtherBody).status), Labels(Unmarshal(OpenBody).status)}
  /\ registry.upTime[Labels(Unmarshal(OtherBody).status)] = Num(7)
  /\ registry.upTime[Labels(Unmarshal(OpenBody).status)] = Num(121)
  /\ registry.garageDoorState[Labels(Unmarshal(OpenBody).status)] = Num(1)
  /\ Cardinality(DOMAIN registry.deviceInfo) = 3
  /\ applied = ApplyScrape(ApplyScrape(ApplyScrape(EmptyRegistry,
                 Unmarshal(OtherBody).status), Unmarshal(ClosedBody).status),
                 Unmarshal(OpenBody).status)

(***************************************************************************)
(* C13.  Every request renders the exposition exactly once, after its own  *)
(* fetch, update and counter step, on every path: a request whose fetch    *)
(* failed renders the registry as it stands after the error was written.   *)
(***************************************************************************)
C13_RendersOnceAfterScrape ==
  /\ [](\A p \in Procs :
          exposition[p].rendered = IF pc[p] = "sent" THEN 1 ELSE 0)
  /\ [][\A p \in Procs :
          (pc[p] # "idle" /\ pc'[p] = "idle") => exposition[p].rendered = 1]_vars
  /\ [][\A p \in Procs :
          exposition'[p].rendered > exposition[p].rendered =>
            /\ pc[p] = "serve"
            /\ exposition'[p].gauges = registry
            /\ exposition'[p].counts = requestCount
            /\ err[p] # "" => header[p] = 500]_vars

C13_Witness ==
  \E p \in Procs :
    /\ pc[p] = "sent"
    /\ err[p] = "transport"
    /\ header[p] = 500
    /\ exposition[p].rendered = 1
    /\ Labels(Unmarshal(ClosedBody).status) \in DOMAIN exposition[p].gauges.upTime
    /\ exposition[p].counts["2xx"] = 1

(***************************************************************************)
(* C14.  Whether the gauges are updated depends on the body alone: a       *)
(* response of any status code whose body is a valid snapshot updates all  *)
(* gauges from it, in the scrape that increments the bucket of the class   *)
(* of that status code.                                                    *)
(***************************************************************************)
\* status[p] is what json.Unmarshal made of the body; it is the decoding of a
\* valid body exactly when the body was one.
C14_UpdateWhateverTheStatusCode ==
  /\ [](\A p \in Procs :
          (pc[p] = "unlock" /\ status[p] \in DecodedResponses) =>
            /\ err[p] = ""
            /\ \A g \in NumericGaugeSet :
                 /\ Labels(status[p]) \in DOMAIN registry[g]
                 /\ registry[g][Labels(status[p])] = GaugeValue(g, status[p])
            /\ InfoLabels(status[p]) \in DOMAIN registry.deviceInfo)
  /\ [][\A p \in Procs :
          (CountStep(p) /\ err[p] = "" /\ obtained[p] >= 200) =>
            requestCount' =
              [requestCount EXCEPT ![StatusClass(obtained[p])] = @ + 1]]_vars

C14_Witness ==
  \E p \in Procs :
    /\ pc[p] = "serve"
    /\ err[p] = ""
    /\ obtained[p] = 500
    /\ requestCount["5xx"] = 1
    /\ requestCount["4xx"] = 1
    /\ Labels(Unmarshal(ClosedBody).status) \in DOMAIN registry.upTime
    /\ registry.upTime[Labels(Unmarshal(ClosedBody).status)] = Num(120)

(***************************************************************************)
(* C15.  After every decoded scrape the info series labelled with the      *)
(* location and the snapshot's firmware version, subnet mask, gateway IP,  *)
(* wifi SSID, lock state and security type exists with value 1, and every  *)
(* info series that exists has value 1.                                    *)
(***************************************************************************)
C15_InfoSeriesAreOne ==
  /\ \A ls \in DOMAIN registry.deviceInfo :
       registry.deviceInfo[ls] = Num(1) /\ Len(ls) = 7 /\ ls[1] = location
  /\ \A p \in Procs :
       Returning(p, "") =>
         << location, status[p].FirmwareVersion, status[p].SubnetMask,
            status[p].GatewayIP, status[p].WifiSSID, status[p].GarageLockState,
            status[p].GDOSecurityType >> \in DOMAIN registry.deviceInfo

C15_Witness ==
  \E p \in Procs :
    /\ Returning(p, "")
    /\ status[p].FirmwareVersion = "1.9.0"
    /\ DOMAIN registry.deviceInfo =
         { <<"home", "1.9.0", "", "", "", "", "">>,
           <<"home", "1.8.0", "", "", "", "Unsecured", "">> }
    /\ \A ls \in DOMAIN registry.deviceInfo : registry.deviceInfo[ls] = Num(1)

====
